---- MODULE Spec2Model ----
(***************************************************************************)
(* Model of goexec/composer.go: the position-tracking writer               *)
(* (WriterWithCursor), the per-category renderers of Declarations, and the *)
(* three calls that compose an output file (createMainFileFromDecls,       *)
(* createGoFileFromLines, writeLinesToFile).                               *)
(*                                                                         *)
(* Text is a sequence of one-byte strings, so that line breaks, byte       *)
(* counts, quoting and partial writes are computed rather than assumed.    *)
(* An error value is the sequence of its messages, outermost first; the    *)
(* nil error is the empty sequence.                                        *)
(***************************************************************************)
EXTENDS Integers, Sequences, FiniteSets, TLC

VARIABLES
    call,            \* which operation this behaviour runs
    pc,              \* position inside that operation
    w,               \* the WriterWithCursor together with its underlying io.Writer
    file,            \* the os.File of the call: [opened, closes]
    decls,           \* *Declarations given to the file composer / renderers
    mainDecl,        \* *Function given to the file composer (NoMain for nil)
    cursor,          \* named result `cursor` of createMainContentsFromDecls
    err,             \* named result `err` of the running call
    ret,             \* what the call returned: [cursor, err]
    phases,          \* log of the phases invoked: [name, cand, failed, from]
    failPhase,       \* phase during which the sink recorded its error ("" if none)
    text,            \* concatenation of the contents of all successful sink writes
    late,            \* number of Write/Writef calls made on an already failed sink
    nops,            \* number of sink operations exercised so far
    runs,            \* results of the renderer calls made so far (renderer runs)
    lines,           \* lines []string of createGoFileFromLines / still to be sent
    skipLines,       \* skipLines map[int]struct{}
    cursorInCell,    \* cursorInCell Cursor
    ii,              \* loop index of createGoFileFromLines
    createdFuncMain, \* local of createGoFileFromLines
    cursorInFile,    \* named result of createGoFileFromLines
    iters,           \* log of the loop iterations of createGoFileFromLines
    chan,            \* the lines channel: [buf, closed]
    discarded        \* lines received and dropped by writeLinesToFile

vars == <<call, pc, w, file, decls, mainDecl, cursor, err, ret, phases, failPhase,
          text, late, nops, runs, lines, skipLines, cursorInCell, ii,
          createdFuncMain, cursorInFile, iters, chan, discarded>>

sinkGhost == <<text, late, nops>>
declVars  == <<decls, mainDecl>>
compVars  == <<cursor, phases, failPhase>>
lineVars  == <<lines, skipLines, cursorInCell, ii, createdFuncMain, cursorInFile, iters>>
chanVars  == <<chan, discarded>>

---------------------------------------------------------------------------
(* Bounds of the model. *)

MaxOps == 3      \* sink operations per behaviour of SpecSink
MaxOk == 3       \* underlying writes that may succeed inside one step before a fault
MaxKeys == 3     \* entries per category in the renderer runs
MaxRuns == 2     \* renderer calls per behaviour of SpecRender
MaxLines == 2    \* input lines of createGoFileFromLines and writeLinesToFile
ChanCap == 1     \* lines the channel of writeLinesToFile holds in flight

---------------------------------------------------------------------------
(* Text helpers. *)

Nil == <<>>

\* The bytes the model uses, in ascending byte value (Go compares strings bytewise).
Ascii == <<"\t", "\n", " ", "\"", "%", "(", ")", ".", "0", "1", "2", "=",
           "A", "B", "C", "F", "M", "P", "T", "X", "\\", "_",
           "a", "b", "c", "d", "e", "f", "g", "i", "k", "l", "m", "n", "o",
           "p", "r", "s", "t", "u", "v", "x", "y", "{", "}">>

Ord(c) == CHOOSE i \in 1..Len(Ascii) : Ascii[i] = c

\* s < t for Go strings.
RECURSIVE StrLess(_, _)
StrLess(s, t) ==
    IF t = <<>> THEN FALSE
    ELSE IF s = <<>> THEN TRUE
    ELSE IF Head(s) = Head(t) THEN StrLess(Tail(s), Tail(t))
    ELSE Ord(Head(s)) < Ord(Head(t))

\* strings.HasPrefix
HasPrefix(s, prefix) ==
    /\ Len(prefix) <= Len(s)
    /\ SubSeq(s, 1, Len(prefix)) = prefix

\* strings.Index: position (from 1) of the first occurrence of sub in s, 0 if none.
Index(s, sub) ==
    LET hits == {i \in 1..(Len(s) - Len(sub) + 1) : SubSeq(s, i, i + Len(sub) - 1) = sub}
    IN IF hits = {} THEN 0 ELSE CHOOSE i \in hits : \A j \in hits : i <= j

\* strings.Replace(s, old, new, 1) for a non-empty old.
ReplaceFirst(s, old, new) ==
    LET i == Index(s, old)
    IN IF i = 0 THEN s
       ELSE SubSeq(s, 1, i - 1) \o new \o SubSeq(s, i + Len(old), Len(s))

\* strings.Split(content, "\n")
RECURSIVE Split(_)
Split(content) ==
    LET i == Index(content, <<"\n">>)
    IN IF i = 0 THEN <<content>>
       ELSE <<SubSeq(content, 1, i - 1)>> \o Split(SubSeq(content, i + 1, Len(content)))

\* strconv.Quote, as used by the %q verb, on the bytes of the model.
RECURSIVE QuoteBody(_)
QuoteBody(s) ==
    IF s = <<>> THEN <<>>
    ELSE (CASE Head(s) = "\n" -> <<"\\", "n">>
            [] Head(s) = "\t" -> <<"\\", "t">>
            [] Head(s) = "\"" -> <<"\\", "\"">>
            [] Head(s) = "\\" -> <<"\\", "\\">>
            [] OTHER -> <<Head(s)>>) \o QuoteBody(Tail(s))

Quote(s) == <<"\"">> \o QuoteBody(s) \o <<"\"">>

\* fmt.Sprintf(format, arg) for the formats of this file: at most one verb, %s or %q.
RECURSIVE Sprintf(_, _)
Sprintf(format, arg) ==
    IF format = <<>> THEN <<>>
    ELSE IF Len(format) >= 2 /\ format[1] = "%" /\ format[2] = "s"
         THEN arg \o Sprintf(SubSeq(format, 3, Len(format)), arg)
    ELSE IF Len(format) >= 2 /\ format[1] = "%" /\ format[2] = "q"
         THEN Quote(arg) \o Sprintf(SubSeq(format, 3, Len(format)), arg)
    ELSE <<Head(format)>> \o Sprintf(Tail(format), arg)

\* errors.Wrapf / errors.WithMessagef: nil stays nil.
Wrapf(e, msg) == IF e = Nil THEN Nil ELSE <<msg>> \o e

---------------------------------------------------------------------------
(* Cursor. *)

NoCursorLine == -1
NoCursor == [Line |-> NoCursorLine, Col |-> 0]
HasCursor(c) == c.Line # NoCursorLine

---------------------------------------------------------------------------
(* The underlying io.Writer.  It accepts every write until the environment *)
(* makes it fail: `fuse` is the number of further calls that succeed       *)
(* before the faulty one (-1: no fault), `kind` is what the faulty call    *)
(* returns: "err" = (0, error), "short" = (len-1, nil) (for an empty       *)
(* content, which cannot be cut short, (0, error)).  The environment       *)
(* chooses the fault anew for every step of the model (Arm ... Settle).    *)

Healthy == -1
ErrIO == <<"EIO">>
NoFault == [after |-> Healthy, kind |-> "err"]
Faults(maxOk) == {NoFault} \cup [after : 0..maxOk, kind : {"err", "short"}]

Arm(s, flt) ==
    IF s.err # Nil THEN s ELSE [s EXCEPT !.fuse = flt.after, !.kind = flt.kind]

\* A fault the step did not reach has not happened.
Settle(s) == IF s.err = Nil THEN [s EXCEPT !.fuse = Healthy] ELSE s

\* w.w.Write([]byte(content)): [s |-> the writer afterwards, n |-> bytes written, err |-> error]
UWrite(s, content) ==
    IF s.fuse # 0
    THEN [s |-> [s EXCEPT !.out = @ \o content, !.calls = @ + 1,
                          !.fuse = IF @ > 0 THEN @ - 1 ELSE @],
          n |-> Len(content), err |-> Nil]
    ELSE IF s.kind = "short" /\ Len(content) > 0
    THEN [s |-> [s EXCEPT !.out = @ \o SubSeq(content, 1, Len(content) - 1),
                          !.calls = @ + 1],
          n |-> Len(content) - 1, err |-> Nil]
    ELSE [s |-> [s EXCEPT !.calls = @ + 1], n |-> 0, err |-> ErrIO]

---------------------------------------------------------------------------
(* WriterWithCursor. *)

NewWriterWithCursor ==
    [err |-> Nil, Line |-> 0, Col |-> 0,
     out |-> <<>>, calls |-> 0, fuse |-> Healthy, kind |-> "err"]

Cursor(s) == [Line |-> s.Line, Col |-> s.Col]

\* Faulty variant of CursorPlusDelta: the column is added whatever the line delta.
CursorPlusDelta_ColAlwaysAdds(s, delta) ==
    [Line |-> s.Line + delta.Line, Col |-> s.Col + delta.Col]

CursorPlusDelta(s, delta) ==
    [Line |-> s.Line + delta.Line,
     Col  |-> IF delta.Line > 0 THEN delta.Col ELSE s.Col + delta.Col]

ErrShortWrite == <<"failed to write: wrote only n bytes">>

\* Faulty variant of Advance: the column keeps adding up across a line break.
Advance_ColAdds(s, content) ==
    LET parts == Split(content)
    IN [s EXCEPT !.Line = @ + Len(parts) - 1, !.Col = @ + Len(parts[Len(parts)])]

\* The cursor update at the end of Write.
Advance(s, content) ==
    LET parts == Split(content)
    IN IF Len(parts) = 1
       THEN [s EXCEPT !.Col = @ + Len(parts[1])]
       ELSE [s EXCEPT !.Line = @ + Len(parts) - 1, !.Col = Len(parts[Len(parts)])]

\* Faulty variant of Write: no check of the stored error before writing.
Write_Unguarded(s, content) ==
    LET r == UWrite(s, content)
        e == IF r.n # Len(content) THEN ErrShortWrite ELSE r.err
    IN IF e # Nil THEN [r.s EXCEPT !.err = e]
       ELSE Advance(r.s, content)

Write(s, content) ==
    IF s.err # Nil THEN s
    ELSE LET r == UWrite(s, content)
             e == IF r.n # Len(content) THEN ErrShortWrite ELSE r.err
         IN IF e # Nil THEN [r.s EXCEPT !.err = e]
            ELSE Advance(r.s, content)

Writef(s, format, arg) ==
    IF s.err # Nil THEN s
    ELSE Write(s, Sprintf(format, arg))

---------------------------------------------------------------------------
(* Declarations.  A Go map is a function on its key set; the order in      *)
(* which `range` visits it is an input of every renderer (`iter`), any     *)
(* permutation of the keys.  Constant.Prev/Next point to the constant      *)
(* stored under that key (NoKey for nil).                                  *)

NoKey == <<"<nil>">>

Orders(S) ==
    {o \in [1..Cardinality(S) -> S] : \A i, j \in 1..Cardinality(S) : o[i] = o[j] => i = j}

\* sort.Strings
RECURSIVE Insert(_, _)
Insert(k, sorted) ==
    IF sorted = <<>> THEN <<k>>
    ELSE IF StrLess(k, Head(sorted)) THEN <<k>> \o sorted
    ELSE <<Head(sorted)>> \o Insert(k, Tail(sorted))

RECURSIVE SortStrings(_)
SortStrings(keys) ==
    IF keys = <<>> THEN <<>> ELSE Insert(Head(keys), SortStrings(Tail(keys)))

\* Faulty variant of sortedKeys: the keys are left in the order of the iteration.
sortedKeys_Unsorted(iter) == iter

\* sortedKeys(m), the map being ranged over in the order iter.
sortedKeys(iter) == SortStrings(iter)

\* A renderer's running state: the sink, the cursor result so far, the keys rendered so far.
Start(s) == [w |-> s, cursor |-> NoCursor, visit |-> <<>>]
Put(st, content) == [st EXCEPT !.w = Write(@, content)]
Putf(st, format, arg) == [st EXCEPT !.w = Writef(@, format, arg)]
\* Faulty variant of Mark: the position of the sink is taken, the delta forgotten.
Mark_NoDelta(st, on, delta) ==
    IF on THEN [st EXCEPT !.cursor = Cursor(st.w)] ELSE st

Mark(st, on, delta) ==
    IF on THEN [st EXCEPT !.cursor = CursorPlusDelta(st.w, delta)] ELSE st
Visit(st, v) == [st EXCEPT !.visit = Append(@, v)]

\* Body of the loop of RenderImports.
RenderImport(key, importDecl, st) ==
    LET a == Put(Visit(st, key), <<"\t">>)
        b == IF importDecl.Alias # <<>>
             THEN Putf(Mark(a, importDecl.CursorInAlias, importDecl.Cursor),
                       <<"%", "s", " ">>, importDecl.Alias)
             ELSE a
        c == Mark(b, importDecl.CursorInPath, importDecl.Cursor)
    IN Putf(c, <<"%", "q", "\n">>, importDecl.Path)

RECURSIVE ImportsLoop(_, _, _)
ImportsLoop(d, keys, st) ==
    IF keys = <<>> THEN st
    ELSE ImportsLoop(d, Tail(keys), RenderImport(Head(keys), d.Imports[Head(keys)], st))

\* Faulty variant of RenderImports: the block is written even when there is no import.
RenderImports_Always(d, s, iter) ==
    Put(ImportsLoop(d, sortedKeys(iter),
                    Put(Start(s), <<"i", "m", "p", "o", "r", "t", " ", "(", "\n">>)),
        <<")", "\n", "\n">>)

RenderImports(d, s, iter) ==
    IF DOMAIN d.Imports = {} THEN Start(s)
    ELSE Put(ImportsLoop(d, sortedKeys(iter),
                         Put(Start(s), <<"i", "m", "p", "o", "r", "t", " ", "(", "\n">>)),
             <<")", "\n", "\n">>)

\* Body of the loop of RenderVariables.
RenderVariable(key, varDecl, st) ==
    LET a == Put(Mark(Put(Visit(st, key), <<"\t">>), varDecl.CursorInName, varDecl.Cursor),
                 varDecl.Name)
        b == IF varDecl.TypeDefinition # <<>>
             THEN Put(Mark(Put(a, <<" ">>), varDecl.CursorInType, varDecl.Cursor),
                      varDecl.TypeDefinition)
             ELSE a
        c == IF varDecl.ValueDefinition # <<>>
             THEN Put(Mark(Put(b, <<" ", "=", " ">>), varDecl.CursorInValue, varDecl.Cursor),
                      varDecl.ValueDefinition)
             ELSE b
    IN Put(c, <<"\n">>)

RECURSIVE VariablesLoop(_, _, _)
VariablesLoop(d, keys, st) ==
    IF keys = <<>> THEN st
    ELSE VariablesLoop(d, Tail(keys),
                       RenderVariable(Head(keys), d.Variables[Head(keys)], st))

RenderVariables(d, s, iter) ==
    IF DOMAIN d.Variables = {} THEN Start(s)
    ELSE Put(VariablesLoop(d, sortedKeys(iter),
                           Put(Start(s), <<"v", "a", "r", " ", "(", "\n">>)),
             <<")", "\n", "\n">>)

InitPrefix == <<"i", "n", "i", "t", "_">>

\* Body of the loop of RenderFunctions.
RenderFunction(key, funcDecl, st) ==
    LET a == Mark(Visit(st, key), HasCursor(funcDecl.Cursor), funcDecl.Cursor)
        def == IF HasPrefix(key, InitPrefix)
               THEN ReplaceFirst(funcDecl.Definition, key, <<"i", "n", "i", "t">>)
               ELSE funcDecl.Definition
    IN Putf(a, <<"%", "s", "\n", "\n">>, def)

RECURSIVE FunctionsLoop(_, _, _)
FunctionsLoop(d, keys, st) ==
    IF keys = <<>> THEN st
    ELSE FunctionsLoop(d, Tail(keys),
                       RenderFunction(Head(keys), d.Functions[Head(keys)], st))

RenderFunctions(d, s, iter) ==
    IF DOMAIN d.Functions = {} THEN Start(s)
    ELSE FunctionsLoop(d, sortedKeys(iter), Start(s))

\* Body of the loop of RenderTypes.
RenderType(key, typeDecl, st) ==
    LET a == Put(Visit(st, key), <<"t", "y", "p", "e", " ">>)
        b == Putf(Mark(a, typeDecl.CursorInKey, typeDecl.Cursor), <<"%", "s", " ">>, key)
    IN Putf(Mark(b, typeDecl.CursorInType, typeDecl.Cursor),
            <<"%", "s", "\n">>, typeDecl.TypeDefinition)

RECURSIVE TypesLoop(_, _, _)
TypesLoop(d, keys, st) ==
    IF keys = <<>> THEN st
    ELSE TypesLoop(d, Tail(keys), RenderType(Head(keys), d.Types[Head(keys)], st))

RenderTypes(d, s, iter) ==
    IF DOMAIN d.Types = {} THEN Start(s)
    ELSE Put(TypesLoop(d, sortedKeys(iter), Start(s)), <<"\n">>)

\* Constant.Render (without the `const` keyword).
ConstantRender(c, st) ==
    LET a == Put(Mark(st, c.CursorInKey, c.Cursor), c.Key)
        b == IF c.TypeDefinition # <<>>
             THEN Put(Mark(Put(a, <<" ">>), c.CursorInType, c.Cursor), c.TypeDefinition)
             ELSE a
    IN IF c.ValueDefinition # <<>>
       THEN Put(Mark(Put(b, <<" ", "=", " ">>), c.CursorInValue, c.Cursor),
                c.ValueDefinition)
       ELSE b

\* `for constDecl != nil { ... constDecl = constDecl.Next }` of RenderConstants.
RECURSIVE ConstBlockLoop(_, _, _, _)
ConstBlockLoop(d, headKey, key, st) ==
    IF key = NoKey THEN st
    ELSE LET c == d.Constants[key]
             a == Put(Visit(st, [key |-> key, head |-> headKey, inline |-> FALSE]), <<"\t">>)
         IN ConstBlockLoop(d, headKey, c.Next, Put(ConstantRender(c, a), <<"\n">>))

\* Body of `for _, headKey := range headKeys` of RenderConstants.
RenderConstBlock(d, headKey, st) ==
    LET constDecl == d.Constants[headKey]
    IN IF constDecl.Next = NoKey
       THEN Put(ConstantRender(constDecl,
                    Put(Visit(st, [key |-> headKey, head |-> headKey, inline |-> TRUE]),
                        <<"c", "o", "n", "s", "t", " ">>)),
                <<"\n", "\n">>)
       ELSE Put(ConstBlockLoop(d, headKey, headKey,
                    Put(st, <<"c", "o", "n", "s", "t", " ", "(", "\n">>)),
                <<")", "\n", "\n">>)

RECURSIVE ConstantsLoop(_, _, _)
ConstantsLoop(d, headKeys, st) ==
    IF headKeys = <<>> THEN st
    ELSE ConstantsLoop(d, Tail(headKeys), RenderConstBlock(d, Head(headKeys), st))

\* Faulty variant of the head enumeration: the heads are left in iteration order.
HeadKeys_Unsorted(d, iter) == SelectSeq(iter, LAMBDA key : d.Constants[key].Prev = NoKey)

\* The heads of the const blocks, in the order the map is ranged over, then sorted.
HeadKeys(d, iter) ==
    SortStrings(SelectSeq(iter, LAMBDA key : d.Constants[key].Prev = NoKey))

RenderConstants(d, s, iter) ==
    IF DOMAIN d.Constants = {} THEN Start(s)
    ELSE ConstantsLoop(d, HeadKeys(d, iter), Start(s))

---------------------------------------------------------------------------
(* Values of the variables an operation does not use. *)

NoMain == [nil |-> TRUE]
NoRet == [returned |-> FALSE]
EmptyDecls ==
    [Imports |-> <<>>, Types |-> <<>>, Constants |-> <<>>, Variables |-> <<>>,
     Functions |-> <<>>]
NoFile == [opened |-> FALSE, closes |-> 0]

IdleFile == file = NoFile
IdleDecls == decls = EmptyDecls /\ mainDecl = NoMain
IdleComp == cursor = NoCursor /\ phases = <<>> /\ failPhase = ""
IdleSink == text = <<>> /\ late = 0 /\ nops = 0
IdleLines ==
    /\ lines = <<>> /\ skipLines = {} /\ cursorInCell = NoCursor
    /\ ii = 0 /\ createdFuncMain = FALSE /\ cursorInFile = NoCursor /\ iters = <<>>
IdleChan == chan = [buf |-> <<>>, closed |-> FALSE] /\ discarded = 0

---------------------------------------------------------------------------
(* SpecSink: a WriterWithCursor driven by arbitrary Write and Writef calls *)
(* over a writer that may fail at any call.                                *)

SinkContents ==
    {<<>>, <<"a">>, <<"\n">>, <<"a", "b", "\n", "c">>, <<"\n", "\n", "a">>}
SinkFormats == {<<"%", "s", " ">>, <<"%", "q", "\n">>}
SinkArgs == {<<"a">>, <<"a", "\n">>}

InitSink ==
    /\ call = "sink" /\ pc = "sink"
    /\ w = NewWriterWithCursor
    /\ err = Nil /\ ret = NoRet /\ runs = <<>>
    /\ IdleFile /\ IdleDecls /\ IdleComp /\ IdleSink /\ IdleLines /\ IdleChan

\* One call w.Write(content), the text recorded if the call succeeded.
SinkStep(after, content) ==
    /\ w' = after
    /\ text' = IF after.err = Nil THEN text \o content ELSE text
    /\ late' = IF w.err # Nil THEN late + 1 ELSE late
    /\ nops' = nops + 1
    /\ UNCHANGED <<call, pc, file, declVars, compVars, err, ret, runs, lineVars, chanVars>>

SinkWrite ==
    /\ call = "sink" /\ nops < MaxOps
    /\ \E content \in SinkContents, flt \in Faults(0) :
          SinkStep(Settle(Write(Arm(w, flt), content)), content)

SinkWritef ==
    /\ call = "sink" /\ nops < MaxOps
    /\ \E format \in SinkFormats, arg \in SinkArgs, flt \in Faults(0) :
          SinkStep(Settle(Writef(Arm(w, flt), format, arg)), Sprintf(format, arg))

SinkDeltas ==
    {[Line |-> 0, Col |-> 2], [Line |-> 1, Col |-> 3], [Line |-> 2, Col |-> 0],
     [Line |-> -1, Col |-> 1]}

\* One call w.CursorPlusDelta(delta): the receiver is only read (w.Cursor() hands
\* out a copy, which is what gets changed); ret keeps the call and its result.
SinkCursorPlusDelta ==
    /\ call = "sink"
    /\ \E delta \in SinkDeltas :
          ret' = [returned |-> TRUE, cursor |-> CursorPlusDelta(w, delta),
                  delta |-> delta]
    /\ w' = w
    /\ UNCHANGED <<call, pc, file, declVars, compVars, err, runs, sinkGhost,
                   lineVars, chanVars>>

NextSink == SinkWrite \/ SinkWritef \/ SinkCursorPlusDelta

SpecSink == InitSink /\ [][NextSink]_vars

---------------------------------------------------------------------------
(* Declaration entries, with the fields the renderers read.  An entry that *)
(* carries the cursor has its flag set and a delta in Cursor; any other    *)
(* entry has Cursor = NoCursor.                                            *)

At(line, col) == [Line |-> line, Col |-> col]
Delta(marked, line, col) == IF marked THEN At(line, col) ELSE NoCursor

ImportOf(alias, path, inAlias, inPath) ==
    [Alias |-> alias, Path |-> path, Cursor |-> Delta(inAlias \/ inPath, 0, 2),
     CursorInAlias |-> inAlias, CursorInPath |-> inPath]

TypeOf(def, inKey, inType) ==
    [TypeDefinition |-> def, Cursor |-> Delta(inKey \/ inType, 0, 1),
     CursorInKey |-> inKey, CursorInType |-> inType]

VariableOf(name, type, value, inName, inValue) ==
    [Name |-> name, TypeDefinition |-> type, ValueDefinition |-> value,
     Cursor |-> Delta(inName \/ inValue, 0, 1),
     CursorInName |-> inName, CursorInType |-> FALSE, CursorInValue |-> inValue]

FunctionOf(def, marked) == [Definition |-> def, Cursor |-> Delta(marked, 1, 1)]

ConstantOf(key, type, value, inKey, inValue, prev, next) ==
    [Key |-> key, TypeDefinition |-> type, ValueDefinition |-> value,
     Cursor |-> Delta(inKey \/ inValue, 0, 1),
     CursorInKey |-> inKey, CursorInType |-> FALSE, CursorInValue |-> inValue,
     Prev |-> prev, Next |-> next]

\* `func <key>() {\n}`
FuncText(key) == <<"f", "u", "n", "c", " ">> \o key \o <<"(", ")", " ", "{", "\n", "}">>

\* The constants over the keys of p, linked in the order of p and cut into
\* blocks after the positions in cuts.
ChainsOf(p, cuts, mark) ==
    [k \in {p[i] : i \in 1..Len(p)} |->
        LET i == CHOOSE j \in 1..Len(p) : p[j] = k
        IN ConstantOf(k, <<>>, <<"1">>, FALSE, k = mark,
                      IF i > 1 /\ (i - 1) \notin cuts THEN p[i - 1] ELSE NoKey,
                      IF i < Len(p) /\ i \notin cuts THEN p[i + 1] ELSE NoKey)]

---------------------------------------------------------------------------
(* SpecRender: the five renderers called on one declaration model, each    *)
(* call ranging over its map in an order of the environment's choosing.    *)

KeyPool == {<<"a">>, <<"B">>, <<"a", "b">>, <<"i", "n", "i", "t", "_", "1">>}

Preamble == <<"p", "a", "c", "k", "a", "g", "e", " ", "m", "a", "i", "n", "\n", "\n">>

\* Where the entry of key k carries the cursor when it is the marked one: in its
\* name (key, alias), in its type or in its value (import path), so that every
\* flag of the entries is set in some model.
Spot(k) == IF Len(k) = 1 THEN "name" ELSE IF Len(k) = 2 THEN "type" ELSE "value"

VariableAt(k, marked) ==
    LET typed == Spot(k) = "type"
        v == VariableOf(k, IF typed THEN <<"i", "n", "t">> ELSE <<>>,
                        IF typed THEN <<>> ELSE <<"1">>,
                        marked /\ Spot(k) = "name", marked /\ Spot(k) = "value")
    IN IF marked /\ typed THEN [v EXCEPT !.CursorInType = TRUE, !.Cursor = At(0, 1)] ELSE v

ConstantAt(c) ==
    CASE Spot(c.Key) = "name" ->
            [c EXCEPT !.CursorInKey = c.CursorInValue, !.CursorInValue = FALSE]
      [] Spot(c.Key) = "type" ->
            [c EXCEPT !.TypeDefinition = <<"i", "n", "t">>,
                      !.CursorInType = c.CursorInValue, !.CursorInValue = FALSE]
      [] OTHER -> c

FunctionAt(k, marked) ==
    LET f == FunctionOf(FuncText(k), marked)
    IN IF marked /\ Spot(k) = "name" THEN [f EXCEPT !.Cursor = At(0, 2)] ELSE f

RenderModel(K, p, cuts, mark) ==
    [Imports   |-> [k \in K |-> ImportOf(IF Len(k) = 1 THEN k ELSE <<>>, k,
                                         k = mark /\ Spot(k) = "name",
                                         k = mark /\ Spot(k) # "name")],
     Types     |-> [k \in K |-> TypeOf(<<"i", "n", "t">>, k = mark /\ Spot(k) = "name",
                                       k = mark /\ Spot(k) # "name")],
     Constants |-> [k \in K |-> ConstantAt(ChainsOf(p, cuts, mark)[k])],
     Variables |-> [k \in K |-> VariableAt(k, k = mark)],
     Functions |-> [k \in K |-> FunctionAt(k, k = mark)]]

InitRender ==
    /\ call = "render" /\ pc = "render"
    /\ w = Write(NewWriterWithCursor, Preamble)
    /\ \E K \in SUBSET KeyPool :
          /\ Cardinality(K) <= MaxKeys
          /\ \E p \in Orders(K), cuts \in SUBSET (1..(Cardinality(K) - 1)),
                mark \in K \cup {NoKey} :
                decls = RenderModel(K, p, cuts, mark)
    /\ mainDecl = NoMain
    /\ err = Nil /\ ret = NoRet /\ runs = <<>>
    /\ IdleFile /\ IdleComp /\ IdleSink /\ IdleLines /\ IdleChan

\* keys is in strictly ascending byte order.
Ascending(keys) == \A i \in 1..(Len(keys) - 1) : StrLess(keys[i], keys[i + 1])

\* One renderer call on the sink w (left as it is: each call starts from the same sink);
\* natural: the map happened to be ranged over in ascending key order.
RenderRun(kind, natural, r) ==
    /\ runs' = Append(runs, [kind |-> kind, natural |-> natural, out |-> r.w.out,
                             cursor |-> r.cursor, visit |-> r.visit,
                             Line |-> r.w.Line, Col |-> r.w.Col])
    /\ UNCHANGED <<call, pc, w, file, declVars, compVars, err, ret, sinkGhost,
                   lineVars, chanVars>>

CanRun(kind) ==
    /\ call = "render" /\ Len(runs) < MaxRuns
    /\ IF runs = <<>> THEN TRUE ELSE runs[1].kind = kind

RunImports ==
    /\ CanRun("imports")
    /\ \E iter \in Orders(DOMAIN decls.Imports) :
          RenderRun("imports", Ascending(iter), RenderImports(decls, w, iter))

RunTypes ==
    /\ CanRun("types")
    /\ \E iter \in Orders(DOMAIN decls.Types) :
          RenderRun("types", Ascending(iter), RenderTypes(decls, w, iter))

RunConstants ==
    /\ CanRun("constants")
    /\ \E iter \in Orders(DOMAIN decls.Constants) :
          RenderRun("constants", Ascending(iter), RenderConstants(decls, w, iter))

RunVariables ==
    /\ CanRun("variables")
    /\ \E iter \in Orders(DOMAIN decls.Variables) :
          RenderRun("variables", Ascending(iter), RenderVariables(decls, w, iter))

RunFunctions ==
    /\ CanRun("functions")
    /\ \E iter \in Orders(DOMAIN decls.Functions) :
          RenderRun("functions", Ascending(iter), RenderFunctions(decls, w, iter))

NextRender == RunImports \/ RunTypes \/ RunConstants \/ RunVariables \/ RunFunctions

SpecRender == InitRender /\ [][NextRender]_vars

---------------------------------------------------------------------------
(* os.Create and f.Close: the environment decides whether each succeeds.   *)

ErrCreate == <<"open: permission denied">>
ErrClose == <<"close: input/output error">>

Opened == [opened |-> TRUE, closes |-> 0]
Closed(f) == [f EXCEPT !.closes = @ + 1]
CloseResult(ok) == IF ok THEN Nil ELSE ErrClose

Return(c, e) == [returned |-> TRUE, cursor |-> c, err |-> e]

---------------------------------------------------------------------------
(* createMainFileFromDecls and createMainContentsFromDecls.                *)

ImportsChoices ==
    {<<>>,
     (<<"o", "s">> :> ImportOf(<<>>, <<"o", "s">>, FALSE, FALSE)),
     (<<"f">> :> ImportOf(<<"f">>, <<"f", "m", "t">>, TRUE, FALSE))
        @@ (<<"o", "s">> :> ImportOf(<<>>, <<"o", "s">>, FALSE, FALSE))}
TypesChoices ==
    {<<>>,
     (<<"T">> :> TypeOf(<<"i", "n", "t">>, FALSE, FALSE)),
     (<<"T">> :> TypeOf(<<"s", "t", "r", "u", "c", "t", " ", "{", "\n", "}">>, FALSE, TRUE))}
ConstantsChoices ==
    {<<>>, ChainsOf(<< <<"b">>, <<"a">>, <<"c">> >>, {2}, <<"a">>)}
VariablesChoices ==
    {<<>>, (<<"v">> :> VariableOf(<<"v">>, <<"i", "n", "t">>, <<"1">>, FALSE, TRUE))}
FunctionsChoices ==
    {<<>>,
     (<<"f">> :> FunctionOf(FuncText(<<"f">>), FALSE)),
     (InitPrefix \o <<"1">> :> FunctionOf(FuncText(InitPrefix \o <<"1">>), TRUE))}
MainChoices ==
    {NoMain,
     [nil |-> FALSE, Definition |-> FuncText(<<"m", "a", "i", "n">>), Cursor |-> NoCursor],
     [nil |-> FALSE, Definition |-> FuncText(<<"m", "a", "i", "n">>), Cursor |-> At(1, 1)]}

InitMain ==
    /\ call = "mainFile" /\ pc = "create"
    /\ w = NewWriterWithCursor
    /\ decls \in [Imports : ImportsChoices, Types : TypesChoices,
                  Constants : ConstantsChoices, Variables : VariablesChoices,
                  Functions : FunctionsChoices]
    /\ mainDecl \in MainChoices
    /\ err = Nil /\ ret = NoRet /\ runs = <<>>
    /\ IdleFile /\ IdleComp /\ IdleSink /\ IdleLines /\ IdleChan

\* f, err = os.Create(s.MainPath()); if err != nil { return }
MainCreate ==
    /\ call = "mainFile" /\ pc = "create"
    /\ \E ok \in BOOLEAN :
          IF ok
          THEN /\ file' = Opened
               /\ pc' = "preamble"
               /\ UNCHANGED <<err, ret>>
          ELSE /\ err' = ErrCreate
               /\ ret' = Return(At(0, 0), ErrCreate)
               /\ pc' = "done"
               /\ UNCHANGED file
    /\ UNCHANGED <<call, w, declVars, compVars, sinkGhost, runs, lineVars, chanVars>>

\* Faulty variant of the order of the phases: types rendered before imports.
NextPhase_TypesFirst(name) ==
    CASE name = "preamble"  -> "types"
      [] name = "types"     -> "imports"
      [] name = "imports"   -> "constants"
      [] name = "constants" -> "variables"
      [] name = "variables" -> "functions"
      [] name = "functions" -> "main"

\* Where the composer goes after a phase that did not return.
NextPhase(name) ==
    CASE name = "preamble"  -> "imports"
      [] name = "imports"   -> "types"
      [] name = "types"     -> "constants"
      [] name = "constants" -> "variables"
      [] name = "variables" -> "functions"
      [] name = "functions" -> "main"

\* cursor = NoCursor; w := NewWriterWithCursor(writer); w.Writef("package main\n\n");
\* if err != nil { return }
ContentsPreamble ==
    /\ call = "mainFile" /\ pc = "preamble"
    /\ \E flt \in Faults(MaxOk) :
          LET s == Settle(Writef(Arm(NewWriterWithCursor, flt), Preamble, <<>>))
          IN /\ w' = s
             /\ failPhase' = IF s.err # Nil THEN "preamble" ELSE ""
    /\ cursor' = NoCursor
    /\ pc' = IF err # Nil THEN "close" ELSE NextPhase("preamble")
    /\ UNCHANGED <<call, file, declVars, err, ret, phases, sinkGhost, runs,
                   lineVars, chanVars>>

\* Faulty variants of mergeCursorAndReportError: one that never reports, one that
\* lets a sentinel candidate replace the cursor.
MergeReports_Never(s) == FALSE
MergeCursor_Overwrites(s, cur, cursorInFile_) == IF s.err = Nil THEN cursorInFile_ ELSE cur

\* mergeCursorAndReportError: its result, and what it leaves in err and cursor.
MergeReports(s) == s.err # Nil
MergeErr(s, e, name) == IF s.err # Nil THEN Wrapf(e, <<"in block", name>>) ELSE e
MergeCursor(s, cur, cursorInFile_) ==
    IF s.err = Nil /\ HasCursor(cursorInFile_) THEN cursorInFile_ ELSE cur

\* if mergeCursorAndReportError(w, decls.RenderX(w), name) { return }
Phase(name, r) ==
    LET s == Settle(r.w)
    IN /\ w' = s
       /\ err' = MergeErr(s, err, name)
       /\ cursor' = MergeCursor(s, cursor, r.cursor)
       /\ pc' = IF MergeReports(s) THEN "close" ELSE NextPhase(name)
       /\ phases' = Append(phases, [name |-> name, cand |-> r.cursor,
                                    failed |-> s.err # Nil, from |-> Len(w.out)])
       /\ failPhase' = IF failPhase = "" /\ s.err # Nil THEN name ELSE failPhase
       /\ UNCHANGED <<call, file, declVars, ret, sinkGhost, runs, lineVars, chanVars>>

ContentsImports ==
    /\ call = "mainFile" /\ pc = "imports"
    /\ \E flt \in Faults(MaxOk), iter \in Orders(DOMAIN decls.Imports) :
          Phase("imports", RenderImports(decls, Arm(w, flt), iter))

ContentsTypes ==
    /\ call = "mainFile" /\ pc = "types"
    /\ \E flt \in Faults(MaxOk), iter \in Orders(DOMAIN decls.Types) :
          Phase("types", RenderTypes(decls, Arm(w, flt), iter))

ContentsConstants ==
    /\ call = "mainFile" /\ pc = "constants"
    /\ \E flt \in Faults(MaxOk), iter \in Orders(DOMAIN decls.Constants) :
          Phase("constants", RenderConstants(decls, Arm(w, flt), iter))

ContentsVariables ==
    /\ call = "mainFile" /\ pc = "variables"
    /\ \E flt \in Faults(MaxOk), iter \in Orders(DOMAIN decls.Variables) :
          Phase("variables", RenderVariables(decls, Arm(w, flt), iter))

ContentsFunctions ==
    /\ call = "mainFile" /\ pc = "functions"
    /\ \E flt \in Faults(MaxOk), iter \in Orders(DOMAIN decls.Functions) :
          Phase("functions", RenderFunctions(decls, Arm(w, flt), iter))

\* Faulty variant of MainCursor: the entry-point's cursor is returned as recorded.
MainCursor_NoLine(s, m) == m.Cursor

\* The entry-point's cursor: its own, the line moved by the sink's current line.
MainCursor(s, m) == [Line |-> m.Cursor.Line + s.Line, Col |-> m.Cursor.Col]

\* if mainDecl != nil { w.Writef("\n"); if mainDecl.HasCursor() { ... };
\*                      w.Writef("%s\n", mainDecl.Definition) }; return
ContentsMain ==
    /\ call = "mainFile" /\ pc = "main"
    /\ IF mainDecl.nil
       THEN UNCHANGED <<w, cursor, phases, failPhase>>
       ELSE \E flt \in Faults(MaxOk) :
               LET a == Writef(Arm(w, flt), <<"\n">>, <<>>)
                   c == IF HasCursor(mainDecl.Cursor) THEN MainCursor(a, mainDecl)
                        ELSE cursor
                   s == Settle(Writef(a, <<"%", "s", "\n">>, mainDecl.Definition))
               IN /\ w' = s
                  /\ cursor' = c
                  /\ phases' = Append(phases,
                        [name |-> "main",
                         cand |-> IF HasCursor(mainDecl.Cursor) THEN c ELSE NoCursor,
                         failed |-> s.err # Nil, from |-> Len(w.out)])
                  /\ failPhase' = IF failPhase = "" /\ s.err # Nil THEN "main"
                                  ELSE failPhase
    /\ pc' = "close"
    /\ UNCHANGED <<call, file, declVars, err, ret, sinkGhost, runs, lineVars, chanVars>>

\* What createMainFileFromDecls returns, given the composer's err and the close's err2.
MainFileErr(e, err2) ==
    IF e # Nil THEN Wrapf(e, "creating main.go")
    ELSE Wrapf(err2, "closing main.go")

\* err2 := f.Close(); ...; return
MainClose ==
    /\ call = "mainFile" /\ pc = "close"
    /\ \E ok \in BOOLEAN :
          /\ file' = Closed(file)
          /\ ret' = Return(cursor, MainFileErr(err, CloseResult(ok)))
    /\ pc' = "done"
    /\ UNCHANGED <<call, w, declVars, compVars, err, sinkGhost, runs, lineVars, chanVars>>

NextMain ==
    \/ MainCreate \/ ContentsPreamble \/ ContentsImports \/ ContentsTypes
    \/ ContentsConstants \/ ContentsVariables \/ ContentsFunctions
    \/ ContentsMain \/ MainClose

SpecMain == InitMain /\ [][NextMain]_vars

---------------------------------------------------------------------------
(* createGoFileFromLines.                                                  *)

LinePool == {<<>>, <<"x">>, <<"%", "%">>, <<"%", "m", "a", "i", "n">>}

SeqsUpTo(S, n) == UNION {[1..k -> S] : k \in 0..n}

FuncMainOpen ==
    <<"f", "u", "n", "c", " ", "m", "a", "i", "n", "(", ")", " ", "{", "\n",
      "\t", "f", "l", "a", "g", ".", "P", "a", "r", "s", "e", "\n">>
FuncMainClose == <<"\n", "}", "\n">>

IsDirective(line) ==
    HasPrefix(line, <<"%", "m", "a", "i", "n">>) \/ HasPrefix(line, <<"%", "%">>)

InitGo ==
    /\ call = "goFile" /\ pc = "create"
    /\ w = NewWriterWithCursor
    /\ lines \in SeqsUpTo(LinePool, MaxLines)
    /\ skipLines \in SUBSET (0..(Len(lines) - 1))
    /\ cursorInCell \in {NoCursor} \cup {At(l, 1) : l \in 0..(Len(lines) - 1)}
    /\ ii = 0 /\ createdFuncMain = FALSE /\ cursorInFile = NoCursor /\ iters = <<>>
    /\ err = Nil /\ ret = NoRet /\ runs = <<>>
    /\ IdleFile /\ IdleDecls /\ IdleComp /\ IdleSink /\ IdleChan

\* cursorInFile = NoCursor; f, err = os.Create(filePath); if err != nil { return ... };
\* w := NewWriterWithCursor(f); defer ...
GoCreate ==
    /\ call = "goFile" /\ pc = "create"
    /\ \E ok \in BOOLEAN :
          IF ok
          THEN /\ file' = Opened
               /\ pc' = "preamble"
               /\ UNCHANGED <<err, ret>>
          ELSE /\ err' = Wrapf(ErrCreate, "Failed to create")
               /\ ret' = Return(NoCursor, Wrapf(ErrCreate, "Failed to create"))
               /\ pc' = "done"
               /\ UNCHANGED file
    /\ UNCHANGED <<call, w, declVars, compVars, sinkGhost, runs, lineVars, chanVars>>

\* w.Write("package main\n\n")
GoPreamble ==
    /\ call = "goFile" /\ pc = "preamble"
    /\ \E flt \in Faults(MaxOk) : w' = Settle(Write(Arm(w, flt), Preamble))
    /\ pc' = "loop"
    /\ UNCHANGED <<call, file, declVars, compVars, err, ret, sinkGhost, runs,
                   lineVars, chanVars>>

\* An iteration that does not reach `if ii == cursorInCell.Line`.
NotMapped(s) == [mapped |-> FALSE, at |-> NoCursor, textAt |-> Len(s.out), ok |-> s.err = Nil]

\* An iteration that reaches it with the sink a: whether the index is the designated
\* one, the position and the number of bytes of the sink there, whether it is sound.
MappedAt(a, i, inCell) ==
    [mapped |-> i = inCell.Line, at |-> IF i = inCell.Line THEN Cursor(a) ELSE NoCursor,
     textAt |-> Len(a.out), ok |-> a.err = Nil]

\* Faulty variant of GoLineBody: the cursor is taken before the tab is written.
GoLineBody_MapsBeforeTab(s, line, i, skip, inCell, created, inFile) ==
    IF IsDirective(line)
    THEN [w |-> Write(s, FuncMainOpen), createdFuncMain |-> TRUE, cursorInFile |-> inFile,
          seen |-> NotMapped(s)]
    ELSE IF i \in skip
    THEN [w |-> s, createdFuncMain |-> created, cursorInFile |-> inFile,
          seen |-> NotMapped(s)]
    ELSE LET a == IF created /\ line # <<>> THEN Write(s, <<"\t">>) ELSE s
         IN [w |-> Write(Write(a, line), <<"\n">>),
             createdFuncMain |-> created,
             cursorInFile |-> IF i = inCell.Line
                              THEN CursorPlusDelta(s, At(0, inCell.Col))
                              ELSE inFile,
             seen |-> MappedAt(a, i, inCell)]

\* Faulty variant of GoLineBody: the cursor is looked at before the excluded set.
GoLineBody_MapsSkipped(s, line, i, skip, inCell, created, inFile) ==
    IF IsDirective(line)
    THEN [w |-> Write(s, FuncMainOpen), createdFuncMain |-> TRUE, cursorInFile |-> inFile,
          seen |-> NotMapped(s)]
    ELSE IF i \in skip
    THEN [w |-> s, createdFuncMain |-> created,
          cursorInFile |-> IF i = inCell.Line
                           THEN CursorPlusDelta(s, At(0, inCell.Col)) ELSE inFile,
          seen |-> MappedAt(s, i, inCell)]
    ELSE LET a == IF created /\ line # <<>> THEN Write(s, <<"\t">>) ELSE s
         IN [w |-> Write(Write(a, line), <<"\n">>),
             createdFuncMain |-> created,
             cursorInFile |-> IF i = inCell.Line
                              THEN CursorPlusDelta(a, At(0, inCell.Col))
                              ELSE inFile,
             seen |-> MappedAt(a, i, inCell)]

\* Faulty variant of GoLineBody: inside func main() an empty line gets its tab too.
GoLineBody_IndentsEmpty(s, line, i, skip, inCell, created, inFile) ==
    IF IsDirective(line)
    THEN [w |-> Write(s, FuncMainOpen), createdFuncMain |-> TRUE, cursorInFile |-> inFile,
          seen |-> NotMapped(s)]
    ELSE IF i \in skip
    THEN [w |-> s, createdFuncMain |-> created, cursorInFile |-> inFile,
          seen |-> NotMapped(s)]
    ELSE LET a == IF created THEN Write(s, <<"\t">>) ELSE s
         IN [w |-> Write(Write(a, line), <<"\n">>),
             createdFuncMain |-> created,
             cursorInFile |-> IF i = inCell.Line
                              THEN CursorPlusDelta(a, At(0, inCell.Col))
                              ELSE inFile,
             seen |-> MappedAt(a, i, inCell)]

\* Faulty variant of GoLineBody: the excluded set is not looked at.
GoLineBody_NoSkip(s, line, i, skip, inCell, created, inFile) ==
    IF IsDirective(line)
    THEN [w |-> Write(s, FuncMainOpen), createdFuncMain |-> TRUE, cursorInFile |-> inFile,
          seen |-> NotMapped(s)]
    ELSE LET a == IF created /\ line # <<>> THEN Write(s, <<"\t">>) ELSE s
         IN [w |-> Write(Write(a, line), <<"\n">>),
             createdFuncMain |-> created,
             cursorInFile |-> IF i = inCell.Line
                              THEN CursorPlusDelta(a, At(0, inCell.Col))
                              ELSE inFile,
             seen |-> MappedAt(a, i, inCell)]

\* The body of `for ii, line := range lines` on the sink s:
\* [w, createdFuncMain, cursorInFile] afterwards, and what the iteration did (seen).
GoLineBody(s, line, i, skip, inCell, created, inFile) ==
    IF IsDirective(line)
    THEN [w |-> Write(s, FuncMainOpen), createdFuncMain |-> TRUE, cursorInFile |-> inFile,
          seen |-> NotMapped(s)]
    ELSE IF i \in skip
    THEN [w |-> s, createdFuncMain |-> created, cursorInFile |-> inFile,
          seen |-> NotMapped(s)]
    ELSE LET a == IF created /\ line # <<>> THEN Write(s, <<"\t">>) ELSE s
         IN [w |-> Write(Write(a, line), <<"\n">>),
             createdFuncMain |-> created,
             cursorInFile |-> IF i = inCell.Line
                              THEN CursorPlusDelta(a, At(0, inCell.Col))
                              ELSE inFile,
             seen |-> MappedAt(a, i, inCell)]

GoLine ==
    /\ call = "goFile" /\ pc = "loop" /\ ii < Len(lines)
    /\ \E flt \in Faults(MaxOk) :
          LET b == GoLineBody(Arm(w, flt), lines[ii + 1], ii, skipLines, cursorInCell,
                              createdFuncMain, cursorInFile)
          IN /\ w' = Settle(b.w)
             /\ createdFuncMain' = b.createdFuncMain
             /\ cursorInFile' = b.cursorInFile
             /\ iters' = Append(iters, [from |-> Len(w.out), to |-> Len(b.w.out),
                                        created |-> createdFuncMain, seen |-> b.seen])
    /\ ii' = ii + 1
    /\ UNCHANGED <<call, pc, file, declVars, compVars, err, ret, sinkGhost, runs,
                   lines, skipLines, cursorInCell, chanVars>>

\* Faulty variant of the end of createGoFileFromLines: no deferred close.
GoFinishResult_NoDefer(s, closeOk) ==
    IF s.err # Nil THEN [err |-> s.err, closes |-> 0]
    ELSE IF ~closeOk
    THEN [err |-> Wrapf(ErrClose, "Failed to close"), closes |-> 1]
    ELSE [err |-> Nil, closes |-> 1]

\* The end of createGoFileFromLines on the sink s, the explicit close succeeding or not:
\* [err, closes], closes counting the explicit and the deferred f.Close().
GoFinishResult(s, closeOk) ==
    IF s.err # Nil THEN [err |-> s.err, closes |-> 1]
    ELSE IF ~closeOk
    THEN [err |-> Wrapf(ErrClose, "Failed to close"), closes |-> 2]
    ELSE [err |-> Nil, closes |-> 1]

\* if createdFuncMain { w.Write("\n}\n") }; if w.Error() != nil { ... return };
\* err = f.Close(); ...; f = nil; return   (and the deferred f.Close() if f != nil)
GoFinish ==
    /\ call = "goFile" /\ pc = "loop" /\ ii = Len(lines)
    /\ \E flt \in Faults(MaxOk), closeOk \in BOOLEAN :
          LET s == Settle(IF createdFuncMain THEN Write(Arm(w, flt), FuncMainClose) ELSE w)
              r == GoFinishResult(s, closeOk)
          IN /\ w' = s
             /\ err' = r.err
             /\ file' = [file EXCEPT !.closes = @ + r.closes]
             /\ ret' = Return(cursorInFile, r.err)
    /\ pc' = "done"
    /\ UNCHANGED <<call, declVars, compVars, sinkGhost, runs, lineVars, chanVars>>

NextGo == GoCreate \/ GoPreamble \/ GoLine \/ GoFinish

SpecGo == InitGo /\ [][NextGo]_vars

---------------------------------------------------------------------------
(* writeLinesToFile, with the producer that feeds and closes its channel.  *)

ErrShortIO == <<"short write">>

\* fmt.Fprintf(f, "%s\n", line) on the file s: [s, err].  (*os.File).Write
\* returns an error whenever it wrote less than it was given.
Fprintf(s, format, arg) ==
    LET content == Sprintf(format, arg)
        r == UWrite(s, content)
    IN [s |-> r.s,
        err |-> IF r.err # Nil THEN r.err
                ELSE IF r.n # Len(content) THEN ErrShortIO ELSE Nil]

InitLines ==
    /\ call = "linesToFile" /\ pc = "create"
    /\ w = NewWriterWithCursor
    /\ lines \in SeqsUpTo({<<>>, <<"x">>}, MaxLines)
    /\ skipLines = {} /\ cursorInCell = NoCursor
    /\ ii = 0 /\ createdFuncMain = FALSE /\ cursorInFile = NoCursor /\ iters = <<>>
    /\ err = Nil /\ ret = NoRet /\ runs = <<>>
    /\ IdleFile /\ IdleDecls /\ IdleComp /\ IdleSink /\ IdleChan

\* The producer sends its next line.
ProducerSend ==
    /\ call = "linesToFile"
    /\ lines # <<>> /\ ~chan.closed /\ Len(chan.buf) < ChanCap
    /\ chan' = [chan EXCEPT !.buf = Append(@, Head(lines))]
    /\ lines' = Tail(lines)
    /\ UNCHANGED <<call, pc, w, file, declVars, compVars, err, ret, sinkGhost, runs,
                   skipLines, cursorInCell, ii, createdFuncMain, cursorInFile, iters,
                   discarded>>

\* The producer closes the channel after its last line.
ProducerClose ==
    /\ call = "linesToFile"
    /\ lines = <<>> /\ ~chan.closed
    /\ chan' = [chan EXCEPT !.closed = TRUE]
    /\ UNCHANGED <<call, pc, w, file, declVars, compVars, err, ret, sinkGhost, runs,
                   lineVars, discarded>>

\* f, err = os.Create(filePath); if err != nil { return errors.Wrapf(...) }; defer ...
LinesCreate ==
    /\ call = "linesToFile" /\ pc = "create"
    /\ \E ok \in BOOLEAN :
          IF ok
          THEN /\ file' = Opened
               /\ pc' = "recv"
               /\ UNCHANGED <<err, ret>>
          ELSE /\ err' = Wrapf(ErrCreate, "creating")
               /\ ret' = Return(NoCursor, Wrapf(ErrCreate, "creating"))
               /\ pc' = "done"
               /\ UNCHANGED file
    /\ UNCHANGED <<call, w, declVars, compVars, sinkGhost, runs, lineVars, chanVars>>

\* One iteration of `for line := range lines`.
LinesRecv ==
    /\ call = "linesToFile" /\ pc = "recv" /\ chan.buf # <<>>
    /\ chan' = [chan EXCEPT !.buf = Tail(@)]
    /\ IF err # Nil
       THEN /\ discarded' = discarded + 1
            /\ UNCHANGED <<w, err>>
       ELSE /\ \E flt \in Faults(0) :
                  LET r == Fprintf(Arm(w, flt), <<"%", "s", "\n">>, Head(chan.buf))
                  IN /\ w' = [r.s EXCEPT !.fuse = Healthy]
                     /\ err' = Wrapf(r.err, "writing to")
            /\ UNCHANGED discarded
    /\ UNCHANGED <<call, pc, file, declVars, compVars, ret, sinkGhost, runs, lineVars>>

\* What the deferred function leaves in err.
DeferredCloseErr(e, newErr) ==
    IF newErr # Nil /\ e = Nil THEN Wrapf(newErr, "closing") ELSE e

\* The channel is closed and drained: return err, through the deferred f.Close().
LinesReturn ==
    /\ call = "linesToFile" /\ pc = "recv" /\ chan.buf = <<>> /\ chan.closed
    /\ \E ok \in BOOLEAN :
          /\ file' = Closed(file)
          /\ ret' = Return(NoCursor, DeferredCloseErr(err, CloseResult(ok)))
    /\ pc' = "done"
    /\ UNCHANGED <<call, w, declVars, compVars, err, sinkGhost, runs, lineVars, chanVars>>

NextLines == ProducerSend \/ ProducerClose \/ LinesCreate \/ LinesRecv \/ LinesReturn

SpecLines == InitLines /\ [][NextLines]_vars

\* The same with the Go scheduler's guarantee: a goroutine that can take its next
\* step (the sender its send or close, writeLinesToFile its next statement)
\* eventually takes it.
SpecLinesLive ==
    /\ SpecLines
    /\ WF_vars(ProducerSend) /\ WF_vars(ProducerClose)
    /\ WF_vars(LinesCreate) /\ WF_vars(LinesRecv) /\ WF_vars(LinesReturn)

---------------------------------------------------------------------------
(* Spec: any one of the three calls that open an output file.              *)

Init == InitMain \/ InitGo \/ InitLines

Next == NextMain \/ NextGo \/ NextLines

Spec == Init /\ [][Next]_vars

---------------------------------------------------------------------------
(* Properties.                                                             *)

\* createMainContentsFromDecls was called and has returned.
Returned == call = "mainFile" /\ pc \in {"close", "done"} /\ file.opened
IsPrefix(s, t) == Len(s) <= Len(t) /\ SubSeq(t, 1, Len(s)) = s
IsSuffix(s, t) == Len(s) <= Len(t) /\ SubSeq(t, Len(t) - Len(s) + 1, Len(t)) = s
Last(s) == s[Len(s)]
PhaseNames == [i \in 1..Len(phases) |-> phases[i].name]
AllPhases ==
    <<"imports", "types", "constants", "variables", "functions">>
        \o (IF mainDecl.nil THEN <<>> ELSE <<"main">>)

\* C1: when the sink's writer fails at any write of the file composer, the composer
\* returns a non-nil error whose outermost message names the phase of the failure.
C1_WriteFailureReported ==
    (call = "mainFile" /\ Returned /\ w.err # Nil) =>
        /\ err # Nil
        /\ Head(err) = <<"in block", failPhase>>
        /\ IsSuffix(w.err, err)

\* The error of the render/write part of the running call.
WriteError == IF call = "linesToFile" THEN err ELSE w.err

\* C2: in every call that opens a file, a render/write error that occurred is the
\* error returned, whatever the close does; a close error is returned only when
\* there is no earlier error.
C2_WriteErrorBeforeCloseError ==
    (pc = "done" /\ file.opened) =>
        /\ WriteError # Nil => IsSuffix(WriteError, ret.err) /\ ret.err # Nil
        /\ IsSuffix(ErrClose, ret.err) => WriteError = Nil

\* C3 as stated: after a sink write failure every remaining phase is still
\* invoked, in the fixed order, before the composer returns.
C3_AllPhasesStillInvoked ==
    (call = "mainFile" /\ Returned /\ w.err # Nil) => PhaseNames = AllPhases

\* C3 as amended: the phases run in the fixed order; after a sink write failure the
\* composer returns at the end of the render phase in which it happened (of the
\* import phase when the preamble write failed, of the entry-point write if there),
\* invoking no later phase; a phase run on the failed sink writes no bytes; without
\* a failure every phase is invoked.
C3_ReturnsAtFailedPhase ==
    call = "mainFile" =>
        /\ IsPrefix(PhaseNames, AllPhases)
        /\ \A i \in 1..Len(phases) : phases[i].failed => i = Len(phases) /\ Returned
        /\ (Returned /\ w.err # Nil) =>
              /\ phases # <<>>
              /\ Last(phases).failed
              /\ Last(phases).name = IF failPhase = "preamble" THEN "imports" ELSE failPhase
              /\ failPhase = "preamble" => Last(phases).from = Len(w.out)
        /\ (Returned /\ w.err = Nil) => PhaseNames = AllPhases

C3_Witness ==
    /\ call = "mainFile" /\ pc = "done" /\ failPhase = "types"
    /\ PhaseNames = <<"imports", "types">>
    /\ ~mainDecl.nil /\ DOMAIN decls.Functions # {}

\* What a caller can see of the sink.
Observable(s) == <<s.err, s.Line, s.Col, s.out, s.calls>>

\* C4: once the sink has failed, a Write or Writef makes no call to the underlying
\* writer and leaves Line, Col and the error as they are; the failing write itself
\* leaves Line and Col as they are.
C4_FailedSinkIsFrozen ==
    [][/\ w.err # Nil => Observable(w') = Observable(w)
       /\ (w.err = Nil /\ w'.err # Nil) => (w'.Line = w.Line /\ w'.Col = w.Col)]_vars

C4_Witness ==
    /\ call = "sink" /\ late >= 1
    /\ w.err = ErrShortWrite /\ w.Line >= 1 /\ w.calls = 2

\* C5: a file that was opened is closed on every exit path and not before the
\* call's end; when the open fails the call returns that error and writes nothing.
C5_FileClosedOnEveryPath ==
    /\ pc # "done" => file.closes = 0 /\ ~ret.returned
    /\ pc = "done" =>
          /\ ret.returned
          /\ file.opened => file.closes >= 1
          /\ ~file.opened =>
                /\ file.closes = 0 /\ w.calls = 0 /\ w.out = <<>>
                /\ IsSuffix(ErrCreate, ret.err)

C5_Witness ==
    /\ call = "goFile" /\ pc = "done" /\ file.opened /\ file.closes = 2
    /\ IsSuffix(ErrClose, ret.err) /\ w.out # <<>>

LineBreaks(t) == Cardinality({i \in 1..Len(t) : t[i] = "\n"})
AfterLastBreak(t) ==
    Len(t) - (IF LineBreaks(t) = 0 THEN 0
              ELSE CHOOSE i \in 1..Len(t) :
                      t[i] = "\n" /\ \A j \in (i + 1)..Len(t) : t[j] # "\n")

\* C6: from (0,0), Line is the number of line breaks in the text written by the
\* successful writes and Col the number of bytes after the last of them (all the
\* bytes if there is none), however the text was split into calls.
C6_PositionOfText ==
    call = "sink" =>
        /\ w.Line = LineBreaks(text)
        /\ w.Col = AfterLastBreak(text)
        /\ w.err = Nil => w.out = text

C6_Witness ==
    /\ call = "sink" /\ nops = 3 /\ late = 0 /\ w.err = Nil
    /\ w.Line = 3 /\ w.Col = 2

SortedKinds == {"imports", "types", "variables", "functions"}
KeysOf(kind) ==
    CASE kind = "imports" -> DOMAIN decls.Imports
      [] kind = "types" -> DOMAIN decls.Types
      [] kind = "variables" -> DOMAIN decls.Variables
      [] kind = "functions" -> DOMAIN decls.Functions
      [] kind = "constants" -> DOMAIN decls.Constants

\* C7: RenderImports, RenderTypes, RenderVariables and RenderFunctions render every
\* entry once, in ascending order of the keys, and two calls on the same model give
\* the same bytes, the same cursor and the same final position whatever the orders
\* in which the map was ranged over.
C7_SortedKeyOrder ==
    \A i \in 1..Len(runs) :
        runs[i].kind \in SortedKinds =>
            /\ Ascending(runs[i].visit)
            /\ {runs[i].visit[n] : n \in 1..Len(runs[i].visit)} = KeysOf(runs[i].kind)
            /\ \A j \in 1..Len(runs) :
                  /\ runs[j].out = runs[i].out
                  /\ runs[j].cursor = runs[i].cursor
                  /\ runs[j].Line = runs[i].Line /\ runs[j].Col = runs[i].Col

C7_Witness ==
    /\ Len(runs) = 2 /\ runs[1].kind = "functions"
    /\ runs[1].natural /\ ~runs[2].natural
    /\ Len(runs[2].visit) = 3 /\ HasCursor(runs[2].cursor)

\* Number of occurrences of sub in t.
Count(t, sub) ==
    Cardinality({i \in 1..(Len(t) - Len(sub) + 1) : SubSeq(t, i, i + Len(sub) - 1) = sub})

IsHead(k) == decls.Constants[k].Prev = NoKey
IsTail(k) == decls.Constants[k].Next = NoKey

\* C8: RenderConstants renders every constant once, each chain from head to tail,
\* the blocks in ascending order of their head keys, a chain of one entry as an
\* inline `const` and a longer one inside one `const (` block, whatever the order
\* in which the map was ranged over.
C8_ConstantChains ==
    \A i \in 1..Len(runs) :
        runs[i].kind = "constants" =>
            LET v == runs[i].visit
                out == SubSeq(runs[i].out, Len(w.out) + 1, Len(runs[i].out))
                heads == {k \in DOMAIN decls.Constants : IsHead(k)}
            IN /\ Len(v) = Cardinality(DOMAIN decls.Constants)
               /\ {v[n].key : n \in 1..Len(v)} = DOMAIN decls.Constants
               /\ \A n \in 1..Len(v) :
                     /\ IF IsHead(v[n].key)
                        THEN v[n].head = v[n].key
                        ELSE /\ n > 1 /\ v[n - 1].head = v[n].head
                             /\ decls.Constants[v[n - 1].key].Next = v[n].key
                     /\ v[n].inline <=> (IsHead(v[n].key) /\ IsTail(v[n].key))
                     /\ \A m \in 1..(n - 1) :
                           v[m].head # v[n].head => StrLess(v[m].head, v[n].head)
               /\ Count(out, <<"c", "o", "n", "s", "t", " ">>) = Cardinality(heads)
               /\ Count(out, <<"c", "o", "n", "s", "t", " ", "(", "\n">>)
                     = Cardinality({k \in heads : ~IsTail(k)})
               /\ \A j \in 1..Len(runs) :
                     runs[j].out = runs[i].out /\ runs[j].cursor = runs[i].cursor

C8_Witness ==
    /\ Len(runs) = 2 /\ runs[2].kind = "constants" /\ ~runs[2].natural
    /\ Len(runs[2].visit) = 3
    /\ runs[2].visit[1].inline
    /\ ~runs[2].visit[2].inline /\ ~runs[2].visit[3].inline
    /\ StrLess(runs[2].visit[3].key, runs[2].visit[2].key)

\* The bytes a renderer produces for the category, on a sink of its own.
AnyOrder(S) == CHOOSE o \in Orders(S) : TRUE
ImportsText == RenderImports(decls, NewWriterWithCursor, AnyOrder(DOMAIN decls.Imports)).w.out
TypesText == RenderTypes(decls, NewWriterWithCursor, AnyOrder(DOMAIN decls.Types)).w.out
ConstantsText ==
    RenderConstants(decls, NewWriterWithCursor, AnyOrder(DOMAIN decls.Constants)).w.out
VariablesText ==
    RenderVariables(decls, NewWriterWithCursor, AnyOrder(DOMAIN decls.Variables)).w.out
FunctionsText ==
    RenderFunctions(decls, NewWriterWithCursor, AnyOrder(DOMAIN decls.Functions)).w.out
MainText == IF mainDecl.nil THEN <<>> ELSE <<"\n">> \o mainDecl.Definition \o <<"\n">>

StartsWith(t, at, word) == SubSeq(t, at + 1, at + Len(word)) = word
Keyword(name) ==
    CASE name = "imports" -> <<"i", "m", "p", "o", "r", "t", " ", "(">>
      [] name = "types" -> <<"t", "y", "p", "e", " ">>
      [] name = "constants" -> <<"c", "o", "n", "s", "t", " ">>
      [] name = "variables" -> <<"v", "a", "r", " ", "(">>
      [] name = "functions" -> <<"f", "u", "n", "c", " ">>
      [] name = "main" -> <<"\n", "f", "u", "n", "c", " ", "m", "a", "i", "n">>

\* C9: the bytes on the sink are always a prefix of preamble, imports, types,
\* constants, variables, functions and, if an entry-point was supplied, a line
\* break and its text, in this order; they are all of it when the composer returns
\* without a sink failure, each phase's part then starting where the previous one
\* ended.
C9_OutputOrder ==
    call = "mainFile" =>
        LET whole == Preamble \o ImportsText \o TypesText \o ConstantsText
                        \o VariablesText \o FunctionsText \o MainText
        IN /\ IsPrefix(w.out, whole)
           /\ (Returned /\ w.err = Nil) =>
                 /\ w.out = whole
                 /\ IsPrefix(Preamble, w.out)
                 /\ mainDecl.nil => Last(phases).name = "functions"
                 /\ \A i \in 1..Len(phases) :
                       LET end == IF i < Len(phases) THEN phases[i + 1].from
                                  ELSE Len(w.out)
                       IN /\ phases[i].from <= end
                          /\ i = 1 => phases[i].from = Len(Preamble)
                          /\ phases[i].from < end =>
                                StartsWith(w.out, phases[i].from, Keyword(phases[i].name))

C9_Witness ==
    /\ call = "mainFile" /\ pc = "done" /\ w.err = Nil
    /\ Len(phases) = 6 /\ phases[6].from < Len(w.out)
    /\ \A i \in 1..5 : phases[i].from < phases[i + 1].from

\* The cursor of the last entry of log that has one, NoCursor if none has.
LatestMapped(log) ==
    LET mapped == {i \in 1..Len(log) : HasCursor(log[i].cand)}
    IN IF mapped = {} THEN NoCursor
       ELSE log[CHOOSE i \in mapped : \A j \in mapped : j <= i].cand

\* C10 as stated: the cursor returned is the candidate of the latest phase that
\* produced a non-sentinel position, the sentinel exactly when no phase produced one.
C10_LatestMappedCandidate ==
    (Returned /\ pc = "done") =>
        /\ ret.cursor = LatestMapped(phases)
        /\ ret.cursor = NoCursor <=> \A i \in 1..Len(phases) : ~HasCursor(phases[i].cand)

\* The phases whose candidate the composer looks at: the renderers that ended with
\* the sink free of error, and the entry-point write.
Accepted == SelectSeq(phases, LAMBDA ph : ~ph.failed \/ ph.name = "main")

\* C10 as amended: the cursor returned is the candidate of the latest phase that
\* produced a non-sentinel position among the render phases that ended with no sink
\* error and the entry-point write (the candidate of a render phase that ends with
\* the sink failed is dropped); a sentinel never replaces an earlier mapped cursor;
\* the result is the sentinel exactly when none of those phases produced a mapping.
C10_LatestAcceptedCandidate ==
    call = "mainFile" =>
        /\ cursor = LatestMapped(Accepted)
        /\ (Returned /\ pc = "done") =>
              /\ ret.cursor = cursor
              /\ ret.cursor = NoCursor <=>
                    \A i \in 1..Len(Accepted) : ~HasCursor(Accepted[i].cand)

C10_Witness ==
    /\ Returned /\ pc = "done" /\ w.err = Nil /\ Len(phases) = 6
    /\ HasCursor(phases[1].cand) /\ HasCursor(phases[3].cand)
    /\ phases[1].cand # phases[3].cand
    /\ \A i \in 4..6 : ~HasCursor(phases[i].cand)
    /\ ret.cursor = phases[3].cand

\* C11: a renderer called on a category with no entry writes nothing, leaves the
\* sink's line and column where they were and returns NoCursor.
C11_EmptyCategoryIsNoOp ==
    \A i \in 1..Len(runs) :
        KeysOf(runs[i].kind) = {} =>
            /\ runs[i].out = w.out
            /\ runs[i].Line = w.Line /\ runs[i].Col = w.Col
            /\ runs[i].cursor = NoCursor
            /\ runs[i].visit = <<>>

C11_Witness ==
    /\ Len(runs) = 2 /\ runs[1].kind = "imports"
    /\ KeysOf("imports") = {} /\ w.out = Preamble /\ w.Line = 2

\* C12: CursorPlusDelta(delta) returns the sink's line plus the line of delta, and
\* as column the column of delta when the line of delta is positive, otherwise the
\* sink's column plus the column of delta; the call leaves the sink's line, column,
\* error and output as they were.
C12_CursorPlusDelta ==
    [][(call = "sink" /\ ret' # ret) =>
          /\ ret'.cursor.Line = w.Line + ret'.delta.Line
          /\ ret'.delta.Line > 0 => ret'.cursor.Col = ret'.delta.Col
          /\ ret'.delta.Line <= 0 => ret'.cursor.Col = w.Col + ret'.delta.Col
          /\ w'.Line = w.Line /\ w'.Col = w.Col /\ w'.err = w.err /\ w'.out = w.out
          /\ text' = text]_vars

C12_Witness ==
    /\ call = "sink" /\ ret.returned /\ w.Line = 2 /\ w.Col = 1
    /\ ret.delta = At(1, 3) /\ ret.cursor = At(3, 3)

EntryOf(kind, k) ==
    CASE kind = "imports" -> decls.Imports[k]
      [] kind = "types" -> decls.Types[k]
      [] kind = "variables" -> decls.Variables[k]
      [] kind = "functions" -> decls.Functions[k]
      [] kind = "constants" -> decls.Constants[k]

\* name [" " type] [" = " value], cut at the sub-text that carries the cursor.
NameTypeValue(first, name, e, inName) ==
    LET type == IF e.TypeDefinition # <<>> THEN <<" ">> \o e.TypeDefinition ELSE <<>>
        value == IF e.ValueDefinition # <<>>
                 THEN <<" ", "=", " ">> \o e.ValueDefinition ELSE <<>>
    IN IF inName THEN [lead |-> first, sub |-> name, tail |-> type \o value]
       ELSE IF e.CursorInType
       THEN [lead |-> first \o name \o <<" ">>, sub |-> e.TypeDefinition, tail |-> value]
       ELSE [lead |-> first \o name \o type \o <<" ", "=", " ">>,
             sub |-> e.ValueDefinition, tail |-> <<>>]

\* The line of the output that holds the marked sub-text of the entry of key k, as
\* Go source: what precedes the sub-text on the line, the sub-text, what follows.
MarkedLine(kind, k) ==
    LET e == EntryOf(kind, k)
    IN CASE kind = "imports" ->
              IF e.CursorInAlias
              THEN [lead |-> <<"\t">>, sub |-> e.Alias, tail |-> <<" ">> \o Quote(e.Path)]
              ELSE [lead |-> <<"\t">> \o (IF e.Alias # <<>> THEN e.Alias \o <<" ">> ELSE <<>>),
                    sub |-> Quote(e.Path), tail |-> <<>>]
         [] kind = "types" ->
              IF e.CursorInKey
              THEN [lead |-> <<"t", "y", "p", "e", " ">>, sub |-> k,
                    tail |-> <<" ">> \o e.TypeDefinition]
              ELSE [lead |-> <<"t", "y", "p", "e", " ">> \o k \o <<" ">>,
                    sub |-> e.TypeDefinition, tail |-> <<>>]
         [] kind = "variables" -> NameTypeValue(<<"\t">>, e.Name, e, e.CursorInName)
         [] kind = "constants" ->
              NameTypeValue(IF IsHead(k) /\ IsTail(k) THEN <<"c", "o", "n", "s", "t", " ">>
                            ELSE <<"\t">>, e.Key, e, e.CursorInKey)
         [] kind = "functions" ->
              [lead |-> <<>>, sub |-> <<"f", "u", "n", "c", " ">> \o k \o <<"(", ")", " ", "{">>,
               tail |-> <<>>]

SameLineMarks(kind) ==
    {k \in KeysOf(kind) : HasCursor(EntryOf(kind, k).Cursor) /\ EntryOf(kind, k).Cursor.Line = 0}

\* C13: when exactly one entry carries the cursor, on one of its sub-texts and with
\* a same-line delta (0, c), the renderer returns the line of the output on which
\* that sub-text starts and the column at which it starts there plus c.
C13_MarkedSubTextPosition ==
    \A i \in 1..Len(runs) : \A k \in SameLineMarks(runs[i].kind) :
        LET l == MarkedLine(runs[i].kind, k)
            whole == <<"\n">> \o l.lead \o l.sub \o l.tail \o <<"\n">>
            at == Index(runs[i].out, whole)
        IN /\ Count(runs[i].out, whole) = 1
           /\ runs[i].cursor = At(LineBreaks(SubSeq(runs[i].out, 1, at)),
                                  Len(l.lead) + EntryOf(runs[i].kind, k).Cursor.Col)

C13_Witness ==
    /\ Len(runs) = 2 /\ runs[1].kind = "imports" /\ ~runs[2].natural
    /\ KeysOf("imports") = {<<"a">>, <<"B">>, <<"a", "b">>}
    /\ decls.Imports[<<"a">>].CursorInAlias /\ decls.Imports[<<"a">>].Cursor = At(0, 2)
    /\ runs[2].cursor = At(4, 3)

\* createGoFileFromLines has returned after running its loop.
GoReturned == call = "goFile" /\ pc = "done" /\ file.opened

\* The designated line is one the loop writes: in range, not excluded, no directive.
Designated ==
    /\ HasCursor(cursorInCell)
    /\ cursorInCell.Line \in 0..(Len(lines) - 1)
    /\ cursorInCell.Line \notin skipLines
    /\ ~IsDirective(lines[cursorInCell.Line + 1])

\* The iteration of the designated line.
DesignatedIter == iters[cursorInCell.Line + 1]

\* C14 as stated: the cursor returned for a designated line that is written has the
\* sink's line at that point and the designated column itself, also for a line
\* written inside the func main() wrapper (no write having failed).
C14_ColumnReplaced ==
    (GoReturned /\ Designated /\ w.err = Nil) =>
        /\ ret.cursor.Line = DesignatedIter.seen.at.Line
        /\ ret.cursor.Col = cursorInCell.Col

\* C14 as amended: the cursor returned for a designated line that is written has
\* the sink's line at that point and the sink's column there plus the designated
\* column; while no write has failed, that point is where the text of the line
\* starts in the output, the sink's column being 1 for a non-empty line inside
\* the func main() wrapper (after its tab) and 0 for any other line.
C14_ColumnAdded ==
    (GoReturned /\ Designated) =>
        LET it == DesignatedIter
            line == lines[cursorInCell.Line + 1]
            upTo == SubSeq(w.out, 1, it.seen.textAt)
        IN /\ it.seen.mapped
           /\ ret.cursor = At(it.seen.at.Line, it.seen.at.Col + cursorInCell.Col)
           /\ it.seen.ok =>
                 /\ it.seen.at = At(LineBreaks(upTo), AfterLastBreak(upTo))
                 /\ it.seen.at.Col = IF it.created /\ line # <<>> THEN 1 ELSE 0
           /\ w.err = Nil =>
                 SubSeq(w.out, it.seen.textAt + 1, it.to) = line \o <<"\n">>

C14_Witness ==
    /\ GoReturned /\ Designated /\ w.err = Nil
    /\ lines = << <<"%", "%">>, <<"x">> >> /\ cursorInCell = At(1, 1)
    /\ ret.cursor = At(4, 2)

\* No position is designated, or the designated line is excluded or a directive line.
Unmappable ==
    \/ cursorInCell = NoCursor
    \/ cursorInCell.Line \in skipLines
    \/ /\ cursorInCell.Line \in 0..(Len(lines) - 1)
       /\ IsDirective(lines[cursorInCell.Line + 1])

\* C15: when no position is designated, or the designated line is excluded or is a
\* directive line, createGoFileFromLines never maps the cursor and returns NoCursor,
\* with a nil error unless creating, writing or closing the file failed.
C15_UnmappedSentinel ==
    (call = "goFile" /\ Unmappable) =>
        /\ cursorInFile = NoCursor
        /\ \A j \in 1..Len(iters) : ~iters[j].seen.mapped
        /\ pc = "done" =>
              /\ ret.cursor = NoCursor
              /\ (file.opened /\ w.err = Nil /\ file.closes = 1) => ret.err = Nil

C15_Witness ==
    /\ GoReturned /\ w.err = Nil /\ file.closes = 1
    /\ lines = << <<"x">>, <<"%", "%">> >> /\ skipLines = {} /\ cursorInCell = At(1, 1)
    /\ ret = Return(NoCursor, Nil)
    /\ IsSuffix(FuncMainOpen \o FuncMainClose, w.out)

\* The bytes the iteration j of the loop added to the output.
Emitted(j) == SubSeq(w.out, iters[j].from + 1, iters[j].to)

\* The iterations of the lines written as text: neither excluded nor a directive.
Written == {j \in 1..Len(iters) : (j - 1) \notin skipLines /\ ~IsDirective(lines[j])}

\* The wrapper, if one was opened, is closed once, after the last line.
ClosedAfterLastLine ==
    LET end == IF iters = <<>> THEN Len(Preamble) ELSE Last(iters).to
    IN /\ SubSeq(w.out, end + 1, Len(w.out))
             = (IF createdFuncMain THEN FuncMainClose ELSE <<>>)
       /\ Count(w.out, FuncMainClose) = (IF createdFuncMain THEN 1 ELSE 0)

\* C16 as stated: once a directive line has opened func main(), every later line
\* that is written is written with one leading tab, and the wrapper is closed
\* after the last input line (no write having failed).
C16_EveryLineIndented ==
    (GoReturned /\ w.err = Nil) =>
        /\ \A j \in Written :
              iters[j].created => Emitted(j) = <<"\t">> \o lines[j] \o <<"\n">>
        /\ ClosedAfterLastLine

\* C16 as amended: once a directive line has opened func main(), every later
\* non-empty line that is written is written with one leading tab and every later
\* empty line as a bare line break; a line before the opening is written as it is;
\* the wrapper is closed once, after the last input line (no write having failed).
C16_NonEmptyLinesIndented ==
    (GoReturned /\ w.err = Nil) =>
        /\ \A j \in Written :
              Emitted(j) = (IF iters[j].created /\ lines[j] # <<>> THEN <<"\t">> ELSE <<>>)
                              \o lines[j] \o <<"\n">>
        /\ \A j \in 1..Len(iters) :
              iters[j].created <=> \E n \in 1..(j - 1) : IsDirective(lines[n])
        /\ createdFuncMain <=> \E n \in 1..Len(lines) : IsDirective(lines[n])
        /\ ClosedAfterLastLine

C16_Witness ==
    /\ GoReturned /\ w.err = Nil /\ skipLines = {}
    /\ lines = << <<"%", "m", "a", "i", "n">>, <<"x">> >>
    /\ w.out = Preamble \o FuncMainOpen \o <<"\t", "x", "\n">> \o FuncMainClose

\* The iterations of the excluded lines.
Excluded == {j \in 1..Len(iters) : (j - 1) \in skipLines}

\* C17 as stated: the iteration of an excluded line adds no byte to the output and
\* does not map the cursor, whatever the lines and the excluded set.
C17_ExcludedLineSilent ==
    call = "goFile" =>
        \A j \in Excluded : iters[j].to = iters[j].from /\ ~iters[j].seen.mapped

\* C17 as amended: the iteration of an excluded line never maps the cursor and
\* writes none of the line's own text; it adds no byte at all unless the line is a
\* directive line, for which it still writes the opening of func main() (all of it
\* when no write fails), as for a directive line that is not excluded.
C17_ExcludedLineUnlessDirective ==
    call = "goFile" =>
        \A j \in Excluded :
            /\ ~iters[j].seen.mapped
            /\ IF IsDirective(lines[j])
               THEN /\ IsPrefix(Emitted(j), FuncMainOpen)
                    /\ w.err = Nil => Emitted(j) = FuncMainOpen
                    /\ j < Len(iters) => iters[j + 1].created
               ELSE iters[j].to = iters[j].from

C17_Witness ==
    /\ GoReturned /\ w.err = Nil
    /\ lines = << <<"x">>, <<"x">> >> /\ skipLines = {0} /\ cursorInCell = At(0, 1)
    /\ w.out = Preamble \o <<"x", "\n">> /\ ret.cursor = NoCursor

FuncMainHead == <<"f", "u", "n", "c", " ", "m", "a", "i", "n", "(", ")", " ", "{">>

\* C20: whatever the lines and the excluded set, the output of createGoFileFromLines
\* holds `func main() {` at most once, and as many openings of the wrapper as
\* closings of it (no write having failed).
C20_WrapperBalanced ==
    (GoReturned /\ w.err = Nil) =>
        /\ Count(w.out, FuncMainHead) <= 1
        /\ Count(w.out, FuncMainHead) = Count(w.out, FuncMainClose)

\* The entry-point was written (or tried) and it carries the cursor.
MainMarked ==
    /\ Returned /\ ~mainDecl.nil /\ HasCursor(mainDecl.Cursor)
    /\ phases # <<>> /\ Last(phases).name = "main"

\* C18: when the entry-point carries the cursor, the composer returns as line the
\* entry-point's recorded line plus the sink's line where the entry-point's text
\* starts (after the separating line break; where the sink stopped, if a write
\* failed) and as column the recorded column, whatever the earlier phases mapped.
C18_EntryPointCursor ==
    MainMarked =>
        LET start == Last(phases).from + 1
        IN /\ cursor.Col = mainDecl.Cursor.Col
           /\ IF w.err = Nil
              THEN /\ SubSeq(w.out, start, Len(w.out)) = MainText
                   /\ cursor.Line = mainDecl.Cursor.Line + LineBreaks(SubSeq(w.out, 1, start))
              ELSE cursor.Line = mainDecl.Cursor.Line + w.Line
           /\ Last(phases).cand = cursor
           /\ pc = "done" => ret.cursor = cursor

C18_Witness ==
    /\ MainMarked /\ pc = "done" /\ w.err = Nil
    /\ HasCursor(phases[1].cand) /\ HasCursor(phases[5].cand)
    /\ ret.cursor = At(mainDecl.Cursor.Line + w.Line - 2, mainDecl.Cursor.Col)
    /\ ret.cursor.Line > phases[5].cand.Line

\* writeLinesToFile has returned while the sender still has a line that the
\* channel cannot take: the sender stays blocked in its send.
ProducerLeftBlocked ==
    /\ call = "linesToFile" /\ pc = "done"
    /\ lines # <<>> /\ Len(chan.buf) >= ChanCap

\* C19: writeLinesToFile never leaves the sender of the lines blocked: it does not
\* return while the sender still has a line to send that nobody will receive.
C19_ProducerNeverLeftBlocked == ~ProducerLeftBlocked

\* Part of C19 that holds: once the file is created, every line sent is received,
\* the channel gets closed and drained, and writeLinesToFile returns.
C19_DrainsOnceCreated ==
    (call = "linesToFile" /\ file.opened)
        ~> (pc = "done" /\ lines = <<>> /\ chan.buf = <<>> /\ chan.closed)

\* Part of C19 that holds: after a failed write nothing more is written, the lines
\* received are dropped, and the error returned is that of the first failed write.
C19_FirstWriteErrorKept ==
    [][(call = "linesToFile" /\ err # Nil /\ file.opened) =>
          /\ err' = err /\ w'.out = w.out
          /\ Len(chan'.buf) < Len(chan.buf) => discarded' = discarded + 1
          /\ pc' # pc => ret'.err = err]_vars

====
